---- MODULE Spec2Model ----
(***************************************************************************)
(* The job broker of tattvaMente: InternalQueue (lib/api/queue) and the    *)
(* HTTP routes that drive it (generate, worker/connect, worker/disconnect, *)
(* worker/poll, worker/result).  Time is Date.now() in milliseconds.       *)
(* The worker page (app/api-access/page.tsx) that connects, polls and      *)
(* reports over these routes is modelled with the requests it has in       *)
(* flight.                                                                 *)
(***************************************************************************)
EXTENDS Integers, Sequences, FiniteSets, TLC

\* ---------------------------------------------------------------- bounds
\* jobs addJob may accept (ids handed out by crypto.randomUUID) while the
\* clock runs
MaxJobs == 2
\* clock advances that are explored
MaxTicks == 5
\* jobs addJob may accept within one instant (the clock standing still)
MaxBurst == 4
\* times the user flips the "external access" switch of the worker page
MaxToggles == 2
\* poll requests of the worker page in flight at once
MaxPolls == 1
\* jobs addJob may accept while the worker page runs
MaxWorkerJobs == 1
\* jobs addJob may accept where the overlap of polls is examined
MaxOverlap == 2

\* ------------------------------------------------------ program constants
\* isWorkerActive: Date.now() - lastWorkerHeartbeat < 15000
LivenessWindow == 15000
\* addJob: setTimeout(..., 60000)
JobTimeout == 60000

\* the clock is observed at instants one liveness window apart
ClockStep == LivenessWindow
\* Date.now() at construction: late enough that the heartbeat stamp 0 is stale
StartTime == LivenessWindow
MaxTime == StartTime + MaxTicks * ClockStep

\* ------------------------------------------------------------- value sets
\* a missing / empty id in the body of a result report (falsy in JS)
NoId == 0
\* a well-formed id that randomUUID never hands out
UnknownId == -1
Requests == {"r1", "r2"}
Results == {"hi"}
\* the optional error argument of completeJob: absent, or a string
Undefined == "undefined"
Errors == {Undefined, "", "boom"}
Null == "null"

ErrUnavailable == "API Access is disabled or worker is not connected. Please enable it in the browser."
ErrDisconnected == "Worker disconnected while processing or queued"
ErrTimeout == "Request timed out waiting for processing"
\* the message of the TypeError a failed fetch() throws
ErrFetch == "Failed to fetch"
\* error.message of what inference throws (an Error may have no message),
\* or "Processing failed" for what is not an Error
WorkerMessages == {"", "Processing failed"}

VARIABLES
    pendingJobs,          \* Map<string, Job>: id -> [id, request, timestamp]
    queue,                \* string[]: order of ids
    lastWorkerHeartbeat,  \* number
    isConnected,          \* boolean
    now,                  \* Date.now()
    issued,               \* how many ids randomUUID has handed out
    timers,               \* armed setTimeout callbacks: id -> due time
    promise,              \* id -> the promise addJob returned to its caller
    polled                \* ids getNextJob has returned, in order

\* the worker page
VARIABLES
    isEnabled,            \* useState(false): the "external access" switch
    pageMounted,          \* the component is mounted
    pollTimerRef,         \* pollTimerRef.current: "null", a "live" interval,
                          \* or the id of a "cleared" one
    leakedTimers,         \* intervals still running that the ref lost
    toggles,              \* how often the user has flipped the switch
    net,                  \* connect / disconnect / poll requests in flight
    work,                 \* id -> where processJob stands with that job
    thrown,               \* id -> the message its error report carries
    applied               \* ids whose result report completeJob accepted

bvars == <<pendingJobs, queue, lastWorkerHeartbeat, isConnected, now, issued,
           timers, promise, polled>>

wvars == <<isEnabled, pageMounted, pollTimerRef, leakedTimers, toggles, net,
           work, thrown, applied>>

vars == <<pendingJobs, queue, lastWorkerHeartbeat, isConnected, now, issued,
          timers, promise, polled, isEnabled, pageMounted, pollTimerRef,
          leakedTimers, toggles, net, work, thrown, applied>>

\* ---------------------------------------------------------------- helpers
Range(s) == {s[i] : i \in 1..Len(s)}

\* f without key k
Without(f, k) == [x \in DOMAIN f \ {k} |-> f[x]]

\* f with key k set to v
With(f, k, v) == [x \in DOMAIN f \cup {k} |-> IF x = k THEN v ELSE f[x]]

Empty == [x \in {} |-> Null]

\* JS truthiness of the optional error string
Truthy(e) == e # Undefined /\ e # ""

\* A promise: state pending | fulfilled | rejected, the value or reason, and
\* how many times resolve / reject has been invoked on it.  The first
\* invocation settles it; later invocations are ignored by the runtime.
NewPromise == [state |-> "pending", value |-> Null, calls |-> 0]

Settled(p, st, v) ==
    IF p.state = "pending"
    THEN [state |-> st, value |-> v, calls |-> p.calls + 1]
    ELSE [p EXCEPT !.calls = @ + 1]

\* resolve() invoked without the result
Resolve_Null(pr, id, v) == [pr EXCEPT ![id] = Settled(@, "fulfilled", Null)]

Resolve(pr, id, v) == [pr EXCEPT ![id] = Settled(@, "fulfilled", v)]
Reject(pr, id, msg) == [pr EXCEPT ![id] = Settled(@, "rejected", msg)]

\* null, as getNextJob returns it
NoJob == [id |-> NoId, request |-> Null]

\* ------------------------------------------------------------------- Init
\* the worker page after its first render: the effect has run with
\* isEnabled false, which sends a fire-and-forget disconnect
WorkerInit ==
    /\ isEnabled = FALSE
    /\ pageMounted = TRUE
    /\ pollTimerRef = "null"
    /\ leakedTimers = 0
    /\ toggles = 0
    /\ net = [connect |-> 0, connectAck |-> 0, disconnect |-> 1, poll |-> 0]
    /\ work = Empty
    /\ thrown = Empty
    /\ applied = {}

Init ==
    /\ pendingJobs = Empty
    /\ queue = <<>>
    /\ lastWorkerHeartbeat = 0
    /\ isConnected = FALSE
    /\ now = StartTime
    /\ issued = 0
    /\ timers = Empty
    /\ promise = Empty
    /\ polled = <<>>
    /\ WorkerInit

\* --------------------------------------------------------- InternalQueue
\* connect() starting the session from an empty broker
Connect_ClearsQueue ==
    /\ isConnected' = TRUE
    /\ lastWorkerHeartbeat' = now
    /\ pendingJobs' = Empty
    /\ queue' = <<>>
    /\ UNCHANGED <<issued, timers, promise, polled>>

\* connect() without the heartbeat stamp
Connect_NoStamp ==
    /\ isConnected' = TRUE
    /\ UNCHANGED <<lastWorkerHeartbeat, pendingJobs, queue, issued, timers,
                   promise, polled>>

\* connect()
Connect ==
    /\ isConnected' = TRUE
    /\ lastWorkerHeartbeat' = now
    /\ UNCHANGED <<pendingJobs, queue, issued, timers, promise, polled>>

\* the ids clearQueue rejects: it walks the queue and looks each id up
ClearQueueRejects == {id \in Range(queue) : id \in DOMAIN pendingJobs}

\* clearQueue() without its this.queue = []
ClearQueue_KeepsQueue ==
    /\ promise' = [id \in DOMAIN promise |->
                      IF id \in ClearQueueRejects
                      THEN Settled(promise[id], "rejected", ErrDisconnected)
                      ELSE promise[id]]
    /\ pendingJobs' = Empty
    /\ queue' = queue

\* clearQueue() without its pendingJobs.clear()
ClearQueue_KeepsIndex ==
    /\ promise' = [id \in DOMAIN promise |->
                      IF id \in ClearQueueRejects
                      THEN Settled(promise[id], "rejected", ErrDisconnected)
                      ELSE promise[id]]
    /\ pendingJobs' = pendingJobs
    /\ queue' = <<>>

\* clearQueue()
ClearQueue ==
    /\ promise' = [id \in DOMAIN promise |->
                      IF id \in ClearQueueRejects
                      THEN Settled(promise[id], "rejected", ErrDisconnected)
                      ELSE promise[id]]
    /\ pendingJobs' = Empty
    /\ queue' = <<>>

\* disconnect() without clearing the heartbeat stamp
Disconnect_KeepsStamp ==
    /\ isConnected' = FALSE
    /\ lastWorkerHeartbeat' = lastWorkerHeartbeat
    /\ ClearQueue
    /\ UNCHANGED <<issued, timers, polled>>

\* disconnect()
Disconnect ==
    /\ isConnected' = FALSE
    /\ lastWorkerHeartbeat' = 0
    /\ ClearQueue
    /\ UNCHANGED <<issued, timers, polled>>

\* registerHeartbeat() without its isConnected test
RegisterHeartbeat_Unconditional ==
    lastWorkerHeartbeat' = now

\* registerHeartbeat(): the stamp it leaves
RegisterHeartbeat ==
    lastWorkerHeartbeat' = IF isConnected THEN now ELSE lastWorkerHeartbeat

\* registerWorker()
RegisterWorker ==
    /\ RegisterHeartbeat
    /\ UNCHANGED <<pendingJobs, queue, isConnected, issued, timers, promise, polled>>

\* unregisterWorker()
UnregisterWorker == Disconnect

\* isWorkerActive() with the window compared by <= instead of <
IsWorkerActive_Inclusive ==
    isConnected /\ (now - lastWorkerHeartbeat <= LivenessWindow)

\* isWorkerActive()
IsWorkerActive ==
    isConnected /\ (now - lastWorkerHeartbeat < LivenessWindow)

\* the timeout callback emptying the queue instead of filtering its id out
TimeoutCallback_ClearsQueue(id) ==
    IF id \in DOMAIN pendingJobs
    THEN /\ promise' = Reject(promise, id, ErrTimeout)
         /\ pendingJobs' = Without(pendingJobs, id)
         /\ queue' = <<>>
    ELSE UNCHANGED <<promise, pendingJobs, queue>>

\* the timeout callback without its look-up of the job in the index
TimeoutCallback_Unguarded(id) ==
    /\ promise' = Reject(promise, id, ErrTimeout)
    /\ pendingJobs' = Without(pendingJobs, id)
    /\ queue' = SelectSeq(queue, LAMBDA qId : qId # id)

\* the timeout callback without the filter of the queue
TimeoutCallback_NoFilter(id) ==
    IF id \in DOMAIN pendingJobs
    THEN /\ promise' = Reject(promise, id, ErrTimeout)
         /\ pendingJobs' = Without(pendingJobs, id)
         /\ UNCHANGED queue
    ELSE UNCHANGED <<promise, pendingJobs, queue>>

\* the callback addJob hands to setTimeout, run when its timer is due
TimeoutCallback(id) ==
    IF id \in DOMAIN pendingJobs
    THEN /\ promise' = Reject(promise, id, ErrTimeout)
         /\ pendingJobs' = Without(pendingJobs, id)
         /\ queue' = SelectSeq(queue, LAMBDA qId : qId # id)
    ELSE UNCHANGED <<promise, pendingJobs, queue>>

\* addJob handing out the id of the job before instead of a fresh one
AddJob_ReusesId(request) ==
    IF ~IsWorkerActive
    THEN UNCHANGED <<pendingJobs, queue, lastWorkerHeartbeat, isConnected,
                     issued, timers, promise, polled>>
    ELSE LET id == IF issued = 0 THEN 1 ELSE issued IN
         /\ issued' = id
         /\ pendingJobs' = With(pendingJobs, id,
                                [id |-> id, request |-> request, timestamp |-> now])
         /\ queue' = Append(queue, id)
         /\ timers' = With(timers, id, now + JobTimeout)
         /\ promise' = With(promise, id, NewPromise)
         /\ UNCHANGED <<lastWorkerHeartbeat, isConnected, polled>>

\* addJob sweeping the queue when it finds the worker inactive
AddJob_SweepsWhenInactive(request) ==
    IF ~IsWorkerActive
    THEN /\ ClearQueue
         /\ UNCHANGED <<lastWorkerHeartbeat, isConnected, issued, timers, polled>>
    ELSE LET id == issued + 1 IN
         /\ issued' = id
         /\ pendingJobs' = With(pendingJobs, id,
                                [id |-> id, request |-> request, timestamp |-> now])
         /\ queue' = Append(queue, id)
         /\ timers' = With(timers, id, now + JobTimeout)
         /\ promise' = With(promise, id, NewPromise)
         /\ UNCHANGED <<lastWorkerHeartbeat, isConnected, polled>>

\* addJob(request)
AddJob(request) ==
    IF ~IsWorkerActive
    THEN UNCHANGED <<pendingJobs, queue, lastWorkerHeartbeat, isConnected,
                     issued, timers, promise, polled>>
    ELSE LET id == issued + 1 IN
         /\ issued' = id
         /\ pendingJobs' = With(pendingJobs, id,
                                [id |-> id, request |-> request, timestamp |-> now])
         /\ queue' = Append(queue, id)
         /\ timers' = With(timers, id, now + JobTimeout)
         /\ promise' = With(promise, id, NewPromise)
         /\ UNCHANGED <<lastWorkerHeartbeat, isConnected, polled>>

\* what addJob hands back at once: a rejected promise, or a pending one
AddJobReturn == IF ~IsWorkerActive THEN ErrUnavailable ELSE "pending"

\* getNextJob taking the id off the wrong end of the queue (pop for shift)
QueueAfterShift_Pop(q) == IF Len(q) = 0 THEN q ELSE SubSeq(q, 1, Len(q) - 1)

\* getNextJob reading the head of the queue without removing it
QueueAfterShift_Keep(q) == q

\* the queue after getNextJob
QueueAfterShift(q) == IF Len(q) = 0 THEN q ELSE Tail(q)

\* what getNextJob returns
GetNextJobReturn ==
    IF ~isConnected THEN NoJob
    ELSE IF Len(queue) = 0 THEN NoJob
    ELSE IF Head(queue) \notin DOMAIN pendingJobs THEN NoJob
    ELSE [id |-> pendingJobs[Head(queue)].id,
          request |-> pendingJobs[Head(queue)].request]

\* getNextJob deleting the job it hands out from the index
GetNextJob_DeletesJob ==
    /\ IF ~isConnected
       THEN UNCHANGED <<lastWorkerHeartbeat, queue, pendingJobs>>
       ELSE /\ RegisterHeartbeat
            /\ queue' = QueueAfterShift(queue)
            /\ pendingJobs' = IF GetNextJobReturn = NoJob THEN pendingJobs
                               ELSE Without(pendingJobs, GetNextJobReturn.id)
    /\ polled' = IF GetNextJobReturn = NoJob THEN polled
                  ELSE Append(polled, GetNextJobReturn.id)
    /\ UNCHANGED <<isConnected, issued, timers, promise>>

\* getNextJob()
GetNextJob ==
    /\ IF ~isConnected
       THEN UNCHANGED <<lastWorkerHeartbeat, queue>>
       ELSE /\ RegisterHeartbeat
            /\ queue' = QueueAfterShift(queue)
    /\ polled' = IF GetNextJobReturn = NoJob THEN polled
                  ELSE Append(polled, GetNextJobReturn.id)
    /\ UNCHANGED <<pendingJobs, isConnected, issued, timers, promise>>

\* completeJob without its pendingJobs.delete(id)
IndexAfterComplete_Keep(pj, id) == pj

\* the index after completeJob found the job
IndexAfterComplete(pj, id) == Without(pj, id)

\* completeJob counting a result report as a heartbeat
CompleteJob_Heartbeats(id, result, error) ==
    /\ IF id \in DOMAIN pendingJobs
       THEN /\ promise' = IF Truthy(error) THEN Reject(promise, id, error)
                           ELSE Resolve(promise, id, result)
            /\ pendingJobs' = IndexAfterComplete(pendingJobs, id)
       ELSE UNCHANGED <<promise, pendingJobs>>
    /\ RegisterHeartbeat
    /\ UNCHANGED <<queue, isConnected, issued, timers, polled>>

\* completeJob(id, result, error)
CompleteJob(id, result, error) ==
    /\ IF id \in DOMAIN pendingJobs
       THEN /\ promise' = IF Truthy(error) THEN Reject(promise, id, error)
                           ELSE Resolve(promise, id, result)
            /\ pendingJobs' = IndexAfterComplete(pendingJobs, id)
       ELSE UNCHANGED <<promise, pendingJobs>>
    /\ UNCHANGED <<queue, lastWorkerHeartbeat, isConnected, issued, timers, polled>>

\* what completeJob returns
CompleteJobReturn(id) == id \in DOMAIN pendingJobs

\* getPendingCount() counting the Pending Index instead of the queue
GetPendingCount_IndexSize(q) == Cardinality(DOMAIN pendingJobs)

\* getPendingCount()
GetPendingCount(q) == Len(q)

\* ------------------------------------------------- handlers and the clock
\* POST /api/v1/worker/connect
PostConnect ==
    /\ Connect
    /\ UNCHANGED now

\* POST /api/v1/worker/disconnect
PostDisconnect ==
    /\ UnregisterWorker
    /\ UNCHANGED now

\* a straggling heartbeat: registerWorker() called directly
Heartbeat ==
    /\ RegisterWorker
    /\ UNCHANGED now

\* GET /api/v1/worker/poll: the body it answers with
GetPollReturn ==
    [job |-> GetNextJobReturn,
     pending |-> GetPendingCount(IF isConnected THEN QueueAfterShift(queue) ELSE queue)]

\* GET /api/v1/worker/poll
GetPoll ==
    /\ GetNextJob
    /\ UNCHANGED now

\* POST /api/v1/worker/result: the code it answers with
PostResultReturn(id) ==
    IF id = NoId THEN "VALIDATION_ERROR"
    ELSE IF ~CompleteJobReturn(id) THEN "JOB_NOT_FOUND"
    ELSE "ok"

\* POST /api/v1/worker/result
PostResult(id, result, error) ==
    /\ IF id = NoId
       THEN UNCHANGED <<pendingJobs, queue, lastWorkerHeartbeat, isConnected,
                        issued, timers, promise, polled>>
       ELSE CompleteJob(id, result, error)
    /\ UNCHANGED now

\* POST /api/v1/generate, up to the await of addJob
PostGenerate(request) ==
    /\ AddJob(request)
    /\ UNCHANGED now

\* the event loop runs a due timer
TimerFires(id) ==
    /\ id \in DOMAIN timers
    /\ timers[id] <= now
    /\ timers' = Without(timers, id)
    /\ TimeoutCallback(id)
    /\ UNCHANGED <<lastWorkerHeartbeat, isConnected, now, issued, polled>>

\* time passes; a due timer runs before the clock is seen to move again
Tick ==
    /\ \A id \in DOMAIN timers : timers[id] > now
    /\ now + ClockStep <= MaxTime
    /\ now' = now + ClockStep
    /\ UNCHANGED <<pendingJobs, queue, lastWorkerHeartbeat, isConnected,
                   issued, timers, promise, polled>>

\* the ids a result report may name
ReportIds == {NoId, UnknownId} \cup (1..issued)

Next ==
    \/ PostConnect /\ UNCHANGED wvars
    \/ PostDisconnect /\ UNCHANGED wvars
    \/ Heartbeat /\ UNCHANGED wvars
    \/ GetPoll /\ UNCHANGED wvars
    \/ \E id \in ReportIds, result \in Results, error \in Errors :
          PostResult(id, result, error) /\ UNCHANGED wvars
    \/ \E request \in Requests :
          (IsWorkerActive => issued < MaxJobs) /\ PostGenerate(request)
             /\ UNCHANGED wvars
    \/ \E id \in DOMAIN timers : TimerFires(id) /\ UNCHANGED wvars
    \/ Tick /\ UNCHANGED wvars

Spec == Init /\ [][Next]_vars

\* one instant: the same handlers with the clock standing still, so that no
\* heartbeat goes stale and no timer comes due
NextBurst ==
    \/ PostConnect /\ UNCHANGED wvars
    \/ PostDisconnect /\ UNCHANGED wvars
    \/ Heartbeat /\ UNCHANGED wvars
    \/ GetPoll /\ UNCHANGED wvars
    \/ \E id \in ReportIds, result \in Results, error \in Errors :
          PostResult(id, result, error) /\ UNCHANGED wvars
    \/ \E request \in Requests :
          (IsWorkerActive => issued < MaxBurst) /\ PostGenerate(request)
             /\ UNCHANGED wvars

SpecBurst == Init /\ [][NextBurst]_vars

\* ------------------------------------------------------- the worker page
\* the cleanup of an effect: clearInterval(pollTimerRef.current), which
\* leaves the id of the cleared interval in the ref
RefAfterCleanup == IF pollTimerRef = "live" THEN "cleared" ELSE pollTimerRef

\* isEnabled turns false: the cleanup of the effect that ran with isEnabled
\* true sends a disconnect, and the else branch of startWorker clears the
\* interval, sets the ref to null and sends a second disconnect
EffectDisabled ==
    /\ isEnabled' = FALSE
    /\ pollTimerRef' = "null"
    /\ net' = [net EXCEPT !.disconnect = @ + 2]
    /\ UNCHANGED <<pageMounted, leakedTimers, work, thrown, applied>>

\* the user switches external access on: the cleanup of the effect that ran
\* with isEnabled false clears the interval in the ref, and startWorker
\* sends the connect request and awaits its answer
Enable ==
    /\ pageMounted
    /\ ~isEnabled
    /\ isEnabled' = TRUE
    /\ toggles' = toggles + 1
    /\ pollTimerRef' = RefAfterCleanup
    /\ net' = [net EXCEPT !.connect = @ + 1]
    /\ UNCHANGED <<pageMounted, leakedTimers, work, thrown, applied>>
    /\ UNCHANGED bvars

\* the user switches external access off
Disable ==
    /\ pageMounted
    /\ isEnabled
    /\ toggles' = toggles + 1
    /\ EffectDisabled
    /\ UNCHANGED bvars

\* the page unmounts: the cleanup of the last effect
Unmount ==
    /\ pageMounted
    /\ pageMounted' = FALSE
    /\ pollTimerRef' = RefAfterCleanup
    /\ net' = [net EXCEPT !.disconnect = @ + (IF isEnabled THEN 1 ELSE 0)]
    /\ UNCHANGED <<isEnabled, leakedTimers, toggles, work, thrown, applied>>
    /\ UNCHANGED bvars

\* the server handles a connect request
DeliverConnect ==
    /\ net.connect > 0
    /\ PostConnect
    /\ net' = [net EXCEPT !.connect = @ - 1, !.connectAck = @ + 1]
    /\ UNCHANGED <<isEnabled, pageMounted, pollTimerRef, leakedTimers, toggles,
                   work, thrown, applied>>

\* startWorker resumes after its await of the connect request:
\* pollTimerRef.current = setInterval(poll, 1000), whatever has happened to
\* the effect in the meantime
ConnectAcked ==
    /\ net.connectAck > 0
    /\ net' = [net EXCEPT !.connectAck = @ - 1]
    /\ pollTimerRef' = "live"
    /\ leakedTimers' = leakedTimers + (IF pollTimerRef = "live" THEN 1 ELSE 0)
    /\ UNCHANGED <<isEnabled, pageMounted, toggles, work, thrown, applied>>
    /\ UNCHANGED bvars

\* the connect request or its answer is lost: fetch throws, and the catch of
\* startWorker calls setIsEnabled(false)
ConnectFails ==
    /\ \E leg \in {"connect", "connectAck"} :
          /\ net[leg] > 0
          /\ IF pageMounted /\ isEnabled
             THEN /\ isEnabled' = FALSE
                  /\ pollTimerRef' = "null"
                  /\ net' = [net EXCEPT ![leg] = @ - 1, !.disconnect = @ + 2]
             ELSE /\ net' = [net EXCEPT ![leg] = @ - 1]
                  /\ UNCHANGED <<isEnabled, pollTimerRef>>
    /\ UNCHANGED <<pageMounted, leakedTimers, toggles, work, thrown, applied>>
    /\ UNCHANGED bvars

\* the server handles a disconnect request
DeliverDisconnect ==
    /\ net.disconnect > 0
    /\ PostDisconnect
    /\ net' = [net EXCEPT !.disconnect = @ - 1]
    /\ UNCHANGED <<isEnabled, pageMounted, pollTimerRef, leakedTimers, toggles,
                   work, thrown, applied>>

\* an interval is running
Polling == pollTimerRef = "live" \/ leakedTimers > 0

\* the ids of the jobs that were popped for the worker and whose processJob
\* has not finished
InProcess ==
    {id \in DOMAIN work :
        work[id] \in {"polled", "inference", "result", "resultAck", "error"}}

\* an interval fires: poll() sends its request
IntervalFires ==
    /\ Polling
    /\ net' = [net EXCEPT !.poll = @ + 1]
    /\ UNCHANGED <<isEnabled, pageMounted, pollTimerRef, leakedTimers, toggles,
                   work, thrown, applied>>
    /\ UNCHANGED bvars

\* the server handles a poll request; an answer without a job ends poll()
DeliverPoll ==
    /\ net.poll > 0
    /\ GetPoll
    /\ net' = [net EXCEPT !.poll = @ - 1]
    /\ work' = IF GetPollReturn.job = NoJob THEN work
                ELSE With(work, GetPollReturn.job.id, "polled")
    /\ UNCHANGED <<isEnabled, pageMounted, pollTimerRef, leakedTimers, toggles,
                   thrown, applied>>

\* a poll request is lost on its way to the server: the catch of poll()
PollRequestLost ==
    /\ net.poll > 0
    /\ net' = [net EXCEPT !.poll = @ - 1]
    /\ UNCHANGED <<isEnabled, pageMounted, pollTimerRef, leakedTimers, toggles,
                   work, thrown, applied>>
    /\ UNCHANGED bvars

\* one step of processJob for job id: from phase to phase
Phase(id, from, to) ==
    /\ id \in DOMAIN work
    /\ work[id] = from
    /\ work' = [work EXCEPT ![id] = to]
    /\ UNCHANGED <<isEnabled, pageMounted, pollTimerRef, leakedTimers, toggles, net>>

\* the answer of a poll that carries a job is lost: the catch of poll()
PollAnswerLost(id) ==
    /\ Phase(id, "polled", "lost")
    /\ UNCHANGED <<thrown, applied>>
    /\ UNCHANGED bvars

\* poll() receives a job and calls processJob, which awaits inference
JobReceived(id) ==
    /\ Phase(id, "polled", "inference")
    /\ UNCHANGED <<thrown, applied>>
    /\ UNCHANGED bvars

\* inference returns: processJob sends the result report
InferenceReturns(id) ==
    /\ Phase(id, "inference", "result")
    /\ UNCHANGED <<thrown, applied>>
    /\ UNCHANGED bvars

\* the catch of processJob logging the failure without reporting it
InferenceThrows_Swallowed(id, msg) ==
    /\ Phase(id, "inference", "done")
    /\ UNCHANGED <<thrown, applied>>
    /\ UNCHANGED bvars

\* inference throws: the catch of processJob sends the error report
InferenceThrows(id, msg) ==
    /\ Phase(id, "inference", "error")
    /\ thrown' = With(thrown, id, msg)
    /\ UNCHANGED applied
    /\ UNCHANGED bvars

\* the server handles the result report
DeliverResult(id, result) ==
    /\ Phase(id, "result", "resultAck")
    /\ PostResult(id, result, Undefined)
    /\ applied' = IF CompleteJobReturn(id) THEN applied \cup {id} ELSE applied
    /\ UNCHANGED thrown

\* the answer to the result report arrives (fetch resolves for a 404 too):
\* processJob is finished
ResultAcked(id) ==
    /\ Phase(id, "resultAck", "done")
    /\ UNCHANGED <<thrown, applied>>
    /\ UNCHANGED bvars

\* the result report or its answer is lost: fetch throws inside the try, and
\* the catch of processJob sends the error report
ResultFails(id) ==
    /\ \E leg \in {"result", "resultAck"} : Phase(id, leg, "error")
    /\ thrown' = With(thrown, id, ErrFetch)
    /\ UNCHANGED applied
    /\ UNCHANGED bvars

\* the server handles the error report
DeliverError(id) ==
    /\ Phase(id, "error", "done")
    /\ PostResult(id, Undefined, thrown[id])
    /\ UNCHANGED <<thrown, applied>>

\* the error report is lost: processJob rejects and the catch of poll()
\* ignores it
ErrorLost(id) ==
    /\ Phase(id, "error", "abandoned")
    /\ UNCHANGED <<thrown, applied>>
    /\ UNCHANGED bvars

\* the steps of the worker page and of the requests it has in flight
WorkerStep ==
    \/ toggles < MaxToggles /\ Enable
    \/ toggles < MaxToggles /\ Disable
    \/ Unmount
    \/ DeliverConnect
    \/ ConnectAcked
    \/ ConnectFails
    \/ DeliverDisconnect
    \/ net.poll < MaxPolls /\ IntervalFires
    \/ DeliverPoll
    \/ PollRequestLost
    \/ \E id \in 1..issued : PollAnswerLost(id)
    \/ \E id \in 1..issued : JobReceived(id)
    \/ \E id \in 1..issued : InferenceReturns(id)
    \/ \E id \in 1..issued, msg \in WorkerMessages : InferenceThrows(id, msg)
    \/ \E id \in 1..issued, result \in Results : DeliverResult(id, result)
    \/ \E id \in 1..issued : ResultAcked(id)
    \/ \E id \in 1..issued : ResultFails(id)
    \/ \E id \in 1..issued : DeliverError(id)
    \/ \E id \in 1..issued : ErrorLost(id)

\* the worker page and the broker, with a client that submits; the clock
\* stands still
NextWorker ==
    \/ WorkerStep
    \/ (IsWorkerActive => issued < MaxWorkerJobs) /\ PostGenerate("r1")
          /\ UNCHANGED wvars

SpecWorker == Init /\ [][NextWorker]_vars

\* the same with more jobs submitted
NextOverlap ==
    \/ WorkerStep
    \/ (IsWorkerActive => issued < MaxOverlap) /\ PostGenerate("r1")
          /\ UNCHANGED wvars

SpecOverlap == Init /\ [][NextOverlap]_vars

\* -------------------------------------------------------------- properties
Accepted == DOMAIN promise

Pending(id) == promise[id].state = "pending"

RejectedWith(id, msg) == promise[id].state = "rejected" /\ promise[id].value = msg

Increasing(s) == \A i, j \in 1..Len(s) : i < j => s[i] < s[j]

\* C1: disconnect() rejects with WorkerDisconnected every job that is
\* unresolved when it is called: the jobs still queued and the jobs already
\* popped by poll but not yet completed.
C1_DisconnectRejectsAllUnresolved ==
    [][PostDisconnect =>
         \A id \in DOMAIN pendingJobs : RejectedWith(id, ErrDisconnected)']_vars

\* C2: no caller of an accepted submit waits forever.  The timeout timer is
\* the last path that can settle a job, so once the timer of a job has run
\* the caller of that job has been settled.
C2_NoCallerWaitsForever ==
    \A id \in Accepted : Pending(id) => id \in DOMAIN timers

\* C3: every id in the dispatch queue is a key of the Pending Index.
C3_QueueWithinIndex ==
    Range(queue) \subseteq DOMAIN pendingJobs

\* C4: a submit made while isActive() is false (not connected, or connected
\* with a heartbeat 15 s or more old) is answered at once with
\* WorkerUnavailable and changes neither queue, index, liveness state nor
\* timers, and hands out no id.
C4_UnavailableRejection ==
    [][\A r \in Requests :
         (PostGenerate(r)
            /\ (~isConnected \/ now - lastWorkerHeartbeat >= LivenessWindow))
         => /\ AddJobReturn = ErrUnavailable
            /\ UNCHANGED <<queue, pendingJobs, isConnected, lastWorkerHeartbeat,
                           timers, promise, issued>>]_vars

\* C4 witness: the worker is connected with a stale heartbeat while a job
\* waits in the queue, and a submit made now is answered WorkerUnavailable.
C4_Witness ==
    /\ isConnected
    /\ now - lastWorkerHeartbeat >= LivenessWindow
    /\ Len(queue) > 0
    /\ AddJobReturn = ErrUnavailable

\* C5: FIFO delivery.  Ids are handed out in submission order, so: the ids
\* poll has returned are in increasing order, and a poll made while connected
\* on a queue whose head is a live job returns that head, which was submitted
\* before everything behind it, and leaves the rest of the queue in place;
\* hence r1, r2, r3 come back from three successive polls in that order.
C5_Fifo ==
    [][GetPoll =>
         /\ Increasing(polled')
         /\ (isConnected /\ Len(queue) > 0 /\ Head(queue) \in DOMAIN pendingJobs)
            => /\ GetNextJobReturn.id = Head(queue)
               /\ GetNextJobReturn.request = pendingJobs[Head(queue)].request
               /\ \A k \in 2..Len(queue) : Head(queue) < queue[k]
               /\ polled' = Append(polled, Head(queue))
               /\ queue' = Tail(queue)]_vars

\* C5 witness: three jobs submitted, then returned by three polls in order.
C5_Witness ==
    /\ polled = <<1, 2, 3>>
    /\ \A id \in 1..3 : id \in DOMAIN pendingJobs

\* C6: a job id is returned by poll at most once, and a popped job is never
\* back on the dispatch queue.
C6_AtMostOnce ==
    /\ \A i, j \in 1..Len(polled) : i # j => polled[i] # polled[j]
    /\ \A i \in 1..Len(polled) : polled[i] \notin Range(queue)

\* C6 witness: a job was popped and never completed, the worker disconnected
\* and connected again, a later job was submitted and popped.
C6_Witness ==
    /\ Len(polled) = 2
    /\ Pending(polled[1])
    /\ polled[1] \notin DOMAIN pendingJobs
    /\ polled[2] \in DOMAIN pendingJobs

\* C7: a result report for an id that is not pending (never handed out,
\* already completed, timed out, or swept) is answered JOB_NOT_FOUND and
\* changes nothing: queue, index, liveness state, timers and the outcome
\* the caller already has.
C7_CompleteNotFound ==
    [][\A id \in ReportIds \ {NoId} :
         (id \notin Accepted \/ ~Pending(id) \/ id \notin DOMAIN pendingJobs)
         => \A result \in Results, error \in Errors :
              PostResult(id, result, error)
              => /\ PostResultReturn(id) = "JOB_NOT_FOUND"
                 /\ ~CompleteJobReturn(id)
                 /\ UNCHANGED <<queue, pendingJobs, isConnected,
                                lastWorkerHeartbeat, timers, promise>>]_vars

\* C7 witness: a job was completed once; a second report for it is answered
\* JOB_NOT_FOUND.
C7_Witness ==
    \E id \in Accepted :
        /\ promise[id].state = "fulfilled"
        /\ promise[id].calls = 1
        /\ PostResultReturn(id) = "JOB_NOT_FOUND"

\* C8: single assignment.  resolve / reject is invoked at most once on the
\* promise of a job, a settled job is out of the index and never comes back
\* into it, and a timer that fires for a job no longer in the index writes
\* nothing and leaves queue and index alone.
C8_SingleAssignment ==
    /\ [](\A id \in Accepted :
            /\ promise[id].calls <= 1
            /\ ~Pending(id) => id \notin DOMAIN pendingJobs)
    /\ [][\A id \in Accepted :
            /\ id \notin DOMAIN pendingJobs => id \notin DOMAIN pendingJobs'
            /\ (TimerFires(id) /\ id \notin DOMAIN pendingJobs)
               => UNCHANGED <<promise, queue, pendingJobs>>]_vars

\* C8 witness: a job was completed, and afterwards its timer has run.
C8_Witness ==
    \E id \in Accepted :
        /\ promise[id].state = "fulfilled"
        /\ promise[id].calls = 1
        /\ id \notin DOMAIN timers

\* C9: timeout safety.  A job stays in the index no longer than 60 s after
\* it was accepted; the Timeout rejection is written by the timer of that
\* job, 60 s after the job was accepted and not before, to a job that is
\* still in the index (queued or popped), and right after it the id is in
\* neither queue nor index.  A job leaves the index only by its timer, by a
\* result report for it, or by disconnect, so a job neither completed nor
\* swept is still there when its timer runs.
C9_TimeoutSafety ==
    /\ [](\A id \in DOMAIN pendingJobs :
            /\ id \in DOMAIN timers
            /\ timers[id] = pendingJobs[id].timestamp + JobTimeout
            /\ now <= pendingJobs[id].timestamp + JobTimeout)
    /\ [][\A id \in Accepted :
            /\ (TimerFires(id) /\ id \in DOMAIN pendingJobs)
               => /\ now = pendingJobs[id].timestamp + JobTimeout
                  /\ RejectedWith(id, ErrTimeout)'
                  /\ id \notin Range(queue')
                  /\ id \notin DOMAIN pendingJobs'
            /\ (~RejectedWith(id, ErrTimeout) /\ RejectedWith(id, ErrTimeout)')
               => TimerFires(id) /\ id \in DOMAIN pendingJobs
            /\ (id \in DOMAIN pendingJobs /\ id \notin DOMAIN pendingJobs')
               => \/ TimerFires(id)
                  \/ PostDisconnect
                  \/ \E result \in Results, error \in Errors :
                        PostResult(id, result, error)]_vars

\* C9 witness: a job that was popped and never completed, and a job that was
\* never polled, have both been rejected with Timeout.
C9_Witness ==
    \E a, b \in Accepted :
        /\ RejectedWith(a, ErrTimeout) /\ a \in Range(polled)
        /\ RejectedWith(b, ErrTimeout) /\ b \notin Range(polled)
        /\ a \notin DOMAIN pendingJobs /\ a \notin Range(queue)
        /\ b \notin DOMAIN pendingJobs /\ b \notin Range(queue)

\* C10: stale-poll immunity.  While the broker is disconnected, a poll and a
\* heartbeat return no job and leave the connected flag, the heartbeat stamp,
\* the queue and the index as they are, so isActive() is still false.
C10_StalePollImmunity ==
    [][(~isConnected /\ (GetPoll \/ Heartbeat))
         => /\ GetNextJobReturn = NoJob
            /\ UNCHANGED <<isConnected, lastWorkerHeartbeat, queue, pendingJobs>>
            /\ ~(isConnected' /\ now' - lastWorkerHeartbeat' < LivenessWindow)]_vars

\* C10 witness: the broker is disconnected after a session in which jobs were
\* handed out, and a poll made now returns no job.
C10_Witness ==
    /\ ~isConnected
    /\ Len(polled) > 0
    /\ GetPollReturn.job = NoJob
    /\ ~IsWorkerActive

\* C11: end-to-end success.  A submit accepted after connect() stores its
\* request under the id it is given; the poll that pops that id returns the
\* id with that request; a result report for the popped id without an error
\* is answered ok, fulfils the promise of that submit with exactly the
\* reported result, settles no other caller, takes the id out of the index
\* and leaves the other index entries alone; with nothing else queued
\* pendingCount() is then 0.
C11_EndToEndSuccess ==
    [][/\ \A r \in Requests :
            (PostGenerate(r) /\ IsWorkerActive)
            => pendingJobs'[issued'].request = r
       /\ (GetPoll /\ GetNextJobReturn # NoJob)
            => GetNextJobReturn.request = pendingJobs[GetNextJobReturn.id].request
       /\ \A id \in Range(polled) \cap DOMAIN pendingJobs :
            \A result \in Results :
               PostResult(id, result, Undefined)
               => /\ PostResultReturn(id) = "ok"
                  /\ promise'[id] = [state |-> "fulfilled", value |-> result,
                                     calls |-> 1]
                  /\ \A other \in Accepted \ {id} : promise'[other] = promise[other]
                  /\ id \notin DOMAIN pendingJobs'
                  /\ \A other \in DOMAIN pendingJobs \ {id} :
                        /\ other \in DOMAIN pendingJobs'
                        /\ pendingJobs'[other] = pendingJobs[other]
                  /\ Len(queue) = 0 => GetPendingCount(queue') = 0]_vars

\* C11 witness: the only job was popped and completed: its caller holds the
\* result, the index is empty and pendingCount() is 0.
C11_Witness ==
    /\ isConnected
    /\ polled = <<1>>
    /\ issued = 1
    /\ promise[1] = [state |-> "fulfilled", value |-> "hi", calls |-> 1]
    /\ pendingJobs = Empty
    /\ GetPendingCount(queue) = 0

\* C12: right after disconnect(), whatever the state it was called in, the
\* broker is not connected, the heartbeat stamp is cleared to 0, the dispatch
\* queue and the Pending Index are empty and pendingCount() is 0.
C12_DisconnectResets ==
    [][PostDisconnect =>
         /\ ~isConnected'
         /\ lastWorkerHeartbeat' = 0
         /\ queue' = <<>>
         /\ pendingJobs' = Empty
         /\ GetPendingCount(queue') = 0]_vars

\* C12 witness: a disconnect has swept a session that held a popped job and
\* a queued job: the queued one is rejected, the broker is idle and empty.
C12_Witness ==
    /\ ~isConnected
    /\ lastWorkerHeartbeat = 0
    /\ queue = <<>>
    /\ pendingJobs = Empty
    /\ polled = <<1>>
    /\ issued = 2
    /\ RejectedWith(2, ErrDisconnected)
    /\ GetPendingCount(queue) = 0

\* C13: in every reachable state, a poll made while connected with a
\* non-empty dispatch queue returns exactly one job, the one whose id is at
\* the head of the queue, with the request stored for it, never no-job, and
\* shortens the queue by exactly one.
C13_PollReturnsHead ==
    [][(GetPoll /\ isConnected /\ Len(queue) > 0)
         => /\ GetNextJobReturn # NoJob
            /\ GetPollReturn.job.id = Head(queue)
            /\ Head(queue) \in DOMAIN pendingJobs
            /\ GetPollReturn.job.request = pendingJobs[Head(queue)].request
            /\ Len(queue') = Len(queue) - 1]_vars

\* C14: pendingCount() is the length of the dispatch queue, not the size of
\* the Pending Index.  A poll that pops a job lowers it by one although the
\* job is still pending in the index, a result report for a popped job does
\* not change it, and the count the poll endpoint returns is the queue length
\* after the pop.
C14_PendingCountIsQueueLength ==
    /\ [](GetPendingCount(queue) = Len(queue))
    /\ [][/\ GetPoll => GetPollReturn.pending = Len(queue')
          /\ (GetPoll /\ GetNextJobReturn # NoJob)
               => /\ GetPendingCount(queue') = GetPendingCount(queue) - 1
                  /\ \A id \in {GetNextJobReturn.id} :
                        id \in DOMAIN pendingJobs' /\ Pending(id)'
                  /\ GetPollReturn.pending = Len(queue) - 1
          /\ \A id \in DOMAIN pendingJobs \ Range(queue) :
               \A result \in Results, error \in Errors :
                  PostResult(id, result, error)
                  => GetPendingCount(queue') = GetPendingCount(queue)]_vars

\* C14 witness: one job popped and still pending, one job still queued: the
\* index holds two jobs and pendingCount() is 1.
C14_Witness ==
    /\ polled = <<1>>
    /\ queue = <<2>>
    /\ DOMAIN pendingJobs = {1, 2}
    /\ Pending(1)
    /\ GetPendingCount(queue) = 1

\* C15: heartbeat expiry alone sweeps nothing.  The passing of time that
\* makes the heartbeat 15 s old or older changes neither queue, index nor
\* any caller's outcome.  While the broker is connected with such a
\* heartbeat: a submit is refused and touches no job; a job leaves the index
\* or has its caller settled only by a result report for it, by its own
\* timer, or by a disconnect; a result report for a job in the index, queued
\* or popped, is still answered ok and settles its caller; and the timer of
\* a job in the index still rejects it with Timeout.
C15_ExpiryDoesNotSweep ==
    [][/\ Tick => UNCHANGED <<queue, pendingJobs, promise, isConnected>>
       /\ (isConnected /\ now - lastWorkerHeartbeat >= LivenessWindow)
          => /\ \A r \in Requests :
                  PostGenerate(r)
                  => /\ AddJobReturn = ErrUnavailable
                     /\ UNCHANGED <<queue, pendingJobs, promise>>
             /\ \A id \in DOMAIN pendingJobs :
                  /\ (id \notin DOMAIN pendingJobs' \/ promise'[id] # promise[id])
                     => \/ TimerFires(id)
                        \/ PostDisconnect
                        \/ \E result \in Results, error \in Errors :
                              PostResult(id, result, error)
                  /\ \A result \in Results, error \in Errors :
                        PostResult(id, result, error)
                        => /\ PostResultReturn(id) = "ok"
                           /\ ~Pending(id)'
                           /\ isConnected'
                  /\ TimerFires(id) => RejectedWith(id, ErrTimeout)']_vars

\* C15 witness: the broker is connected with an expired heartbeat, and the
\* job popped before and the job still queued are both in the index with
\* their callers unsettled.
C15_Witness ==
    /\ isConnected
    /\ now - lastWorkerHeartbeat >= LivenessWindow
    /\ polled = <<1>>
    /\ queue = <<2>>
    /\ DOMAIN pendingJobs = {1, 2}
    /\ Pending(1) /\ Pending(2)
    /\ AddJobReturn = ErrUnavailable

\* where a job stands: not yet accepted; queued (in the index, id in the
\* queue); popped (in the index, id off the queue); dropped (out of the index
\* with its caller unsettled); or one of the settled ends
JobState(id) ==
    IF id \notin Accepted THEN "none"
    ELSE IF promise[id].state = "fulfilled" THEN "completed"
    ELSE IF RejectedWith(id, ErrTimeout) THEN "timed-out"
    ELSE IF RejectedWith(id, ErrDisconnected) THEN "rejected"
    ELSE IF promise[id].state = "rejected" THEN "failed"
    ELSE IF id \notin DOMAIN pendingJobs THEN "dropped"
    ELSE IF id \in Range(queue) THEN "queued"
    ELSE "popped"

TerminalStates == {"completed", "failed", "timed-out", "rejected"}

\* the transitions of the state machine as the specification draws it
ClaimedTransitions ==
    {<<"none", "queued">>, <<"queued", "popped">>,
     <<"popped", "completed">>, <<"popped", "failed">>,
     <<"popped", "timed-out">>, <<"queued", "rejected">>}

\* the transitions the broker makes
BrokerTransitions ==
    ClaimedTransitions
      \cup {<<"queued", "completed">>, <<"queued", "failed">>,
            <<"queued", "timed-out">>, <<"popped", "dropped">>}

\* every job moves along the given transitions or stays where it is, and a
\* job in a terminal state keeps its outcome untouched
FollowsMachine(transitions) ==
    \A id \in 1..issued' :
        /\ \/ JobState(id)' = JobState(id)
           \/ <<JobState(id), JobState(id)'>> \in transitions
        /\ JobState(id) \in TerminalStates
           => /\ promise'[id] = promise[id]
              /\ id \notin DOMAIN pendingJobs'

C17_Reusable ==
    [][/\ PostConnect => (AddJobReturn = "pending")'
       /\ (/\ GetPoll
           /\ isConnected
           /\ issued \in Range(queue) \cap DOMAIN pendingJobs
           /\ \A id \in Range(queue) \cap DOMAIN pendingJobs : id = issued)
          => /\ GetPollReturn.job.id = issued
             /\ GetPollReturn.job.request = pendingJobs[issued].request]_vars

\* C18: a poll that returns a job takes the id of that job off the dispatch
\* queue and nothing else: the job is still in the Pending Index, the rest of
\* the queue, every index entry and every caller's outcome are as before.  A
\* popped job stays in the index with its caller unsettled until a result
\* report for it, its own timer, or a disconnect.
C18_PollFrame ==
    [][/\ (GetPoll /\ GetNextJobReturn # NoJob)
          => /\ queue' = Tail(queue)
             /\ GetNextJobReturn.id \notin Range(queue')
             /\ pendingJobs' = pendingJobs
             /\ GetNextJobReturn.id \in DOMAIN pendingJobs'
             /\ promise' = promise
             /\ UNCHANGED <<timers, isConnected, issued>>
       /\ \A id \in DOMAIN pendingJobs \ Range(queue) :
            (Pending(id) /\ (id \notin DOMAIN pendingJobs' \/ promise'[id] # promise[id]))
            => \/ TimerFires(id)
               \/ PostDisconnect
               \/ \E result \in Results, error \in Errors :
                     PostResult(id, result, error)]_vars

\* C18 witness: the first of two jobs was popped: it is off the queue, both
\* jobs are in the index with their callers unsettled, the second is queued.
C18_Witness ==
    /\ polled = <<1>>
    /\ queue = <<2>>
    /\ 1 \in DOMAIN pendingJobs /\ Pending(1)
    /\ 2 \in DOMAIN pendingJobs /\ Pending(2)
    /\ isConnected
    /\ lastWorkerHeartbeat = now

\* C19: a result report for a job in the index that carries a failure reason
\* (any error string, the empty string included) rejects the caller of that
\* job with that reason and never fulfils it; a report without a failure
\* reason fulfils the caller with the reported result.
C19_FailureReasonRejects ==
    [][\A id \in DOMAIN pendingJobs :
         \A result \in Results, error \in Errors :
            PostResult(id, result, error)
            => IF error # Undefined
               THEN RejectedWith(id, error)'
               ELSE promise'[id].state = "fulfilled" /\ promise'[id].value = result]_vars

\* C20: isActive() is true exactly when the broker is connected and the
\* heartbeat is less than 15 s old; with a heartbeat exactly 15 s old it is
\* false; right after connect(), and right after a poll made while
\* connected, it is true.
C20_IsActive ==
    /\ [](/\ IsWorkerActive <=> (isConnected /\ now - lastWorkerHeartbeat < 15000)
          /\ (isConnected /\ now - lastWorkerHeartbeat = 15000) => ~IsWorkerActive)
    /\ [][/\ PostConnect => IsWorkerActive'
          /\ (GetPoll /\ isConnected) => IsWorkerActive']_vars

\* C20 witness: a connected broker whose heartbeat is exactly 15 s old is
\* not active, and a submit made now is refused.
C20_Witness ==
    /\ isConnected
    /\ now - lastWorkerHeartbeat = 15000
    /\ ~IsWorkerActive
    /\ AddJobReturn = ErrUnavailable

\* C21: the liveness state (connected flag and heartbeat stamp) is written
\* only by connect, disconnect and the heartbeat that poll registers.  A
\* submit, accepted or refused (with the isActive() test it makes), a result
\* report, found or not found, a timer that fires, the passing of time, and
\* the pendingCount() a poll answers with all leave it as it is.
C21_LivenessFrame ==
    [][/\ (\E r \in Requests : PostGenerate(r))
            => UNCHANGED <<isConnected, lastWorkerHeartbeat>>
       /\ (\E id \in ReportIds, result \in Results, error \in Errors :
              PostResult(id, result, error))
            => UNCHANGED <<isConnected, lastWorkerHeartbeat>>
       /\ (\E id \in DOMAIN timers : TimerFires(id))
            => UNCHANGED <<isConnected, lastWorkerHeartbeat>>
       /\ Tick => UNCHANGED <<isConnected, lastWorkerHeartbeat>>
       /\ (isConnected' # isConnected)
            => PostConnect \/ PostDisconnect
       /\ (lastWorkerHeartbeat' # lastWorkerHeartbeat)
            => PostConnect \/ PostDisconnect \/ GetPoll \/ Heartbeat]_vars

\* C21 witness: the worker connected at the start and never polled; since
\* then a job was accepted, completed by a result report, and its timer has
\* run, a submit made now is refused, and the stamp is still that of the
\* connect.
C21_Witness ==
    /\ isConnected
    /\ lastWorkerHeartbeat = StartTime
    /\ now >= StartTime + JobTimeout
    /\ polled = <<>>
    /\ issued = 1
    /\ promise[1].state = "fulfilled"
    /\ timers = Empty
    /\ AddJobReturn = ErrUnavailable

\* C22: a poll made while the broker is connected with an expired heartbeat
\* refreshes the heartbeat, so that isActive() is true right after it and a
\* submit is accepted again, and that same poll pops and returns the head of
\* the queue when the queue is not empty: the connected flag alone gates
\* poll.
C22_ExpiredPollRefreshes ==
    [][(GetPoll /\ isConnected /\ now - lastWorkerHeartbeat >= LivenessWindow)
         => /\ lastWorkerHeartbeat' = now
            /\ IsWorkerActive'
            /\ (AddJobReturn = "pending")'
            /\ Len(queue) > 0
               => /\ GetPollReturn.job.id = Head(queue)
                  /\ queue' = Tail(queue)]_vars

\* C23: whenever the broker is not connected the heartbeat stamp is cleared
\* (0); and the connect that follows a disconnect stamps the time of that
\* connect, so no stamp from before the disconnect comes back.
C23_StampClearedWhenDisconnected ==
    /\ [](~isConnected => lastWorkerHeartbeat = 0)
    /\ [][(PostConnect /\ ~isConnected)
            => /\ lastWorkerHeartbeat = 0
               /\ lastWorkerHeartbeat' = now']_vars

\* C23 witness: a session that polled later than it connected was ended by a
\* disconnect, time went on, and the broker was connected again: the stamp
\* is the time of the second connect.
C23_Witness ==
    /\ isConnected
    /\ Len(polled) > 0
    /\ \E id \in Accepted : Pending(id) /\ id \notin DOMAIN pendingJobs
    /\ pendingJobs = Empty
    /\ lastWorkerHeartbeat = now
    /\ now > StartTime + ClockStep

\* C24: whenever the broker is not connected, the dispatch queue and the
\* Pending Index are both empty, so nothing accepted in an earlier session
\* can be polled or completed: a poll returns no job and a result report for
\* any id is answered JOB_NOT_FOUND.
C24_EmptyWhenDisconnected ==
    ~isConnected
    => /\ queue = <<>>
       /\ pendingJobs = Empty
       /\ GetPollReturn.job = NoJob
       /\ \A id \in ReportIds \ {NoId} : PostResultReturn(id) = "JOB_NOT_FOUND"

\* C24 witness: a session in which one job was popped and a second one
\* queued has been ended by a disconnect; neither job is left in the broker.
C24_Witness ==
    /\ ~isConnected
    /\ issued = 2
    /\ polled = <<1>>
    /\ Pending(1)
    /\ RejectedWith(2, ErrDisconnected)
    /\ queue = <<>> /\ pendingJobs = Empty
    /\ PostResultReturn(1) = "JOB_NOT_FOUND"
    /\ PostResultReturn(2) = "JOB_NOT_FOUND"

\* C25: connect() writes the liveness state only.  It leaves the dispatch
\* queue, the Pending Index, the timers and every caller's outcome as they
\* are, also when the broker is connected already: the jobs still queued
\* stay queued for the worker that connects, and the jobs popped before stay
\* in the index with their callers unsettled.
C25_ConnectFrame ==
    [][PostConnect
         => /\ isConnected'
            /\ lastWorkerHeartbeat' = now
            /\ UNCHANGED <<queue, pendingJobs, promise, timers, issued, polled>>
            /\ \A id \in DOMAIN pendingJobs :
                  Pending(id) => (id \in DOMAIN pendingJobs' /\ Pending(id)')]_vars

\* C25 witness: a job was popped and a second one queued in the first 15 s;
\* the heartbeat expired, and a connect made while still connected has
\* stamped the present time: the queued job is still queued, the popped job
\* is still in the index, both callers are unsettled.
C25_Witness ==
    /\ isConnected
    /\ lastWorkerHeartbeat = now
    /\ polled = <<1>>
    /\ queue = <<2>>
    /\ DOMAIN pendingJobs = {1, 2}
    /\ Pending(1) /\ Pending(2)
    /\ now > pendingJobs[2].timestamp

\* every job but id is where it was: same outcome for its caller, same
\* entry in the index or none
OthersUntouched(id) ==
    \A other \in Accepted \ {id} :
        /\ promise'[other] = promise[other]
        /\ other \in DOMAIN pendingJobs <=> other \in DOMAIN pendingJobs'
        /\ other \in DOMAIN pendingJobs => pendingJobs'[other] = pendingJobs[other]

\* C26: the timer of a job touches that job only: every other job keeps its
\* index entry and its caller's outcome, and the other ids of the queue stay
\* in their order.  A result report for an id, likewise, settles and removes
\* only the job with that id, and leaves the queue as it is.
C26_OnlyOwnJob ==
    [][\A id \in Accepted :
         /\ TimerFires(id)
            => /\ OthersUntouched(id)
               /\ SelectSeq(queue', LAMBDA qId : qId # id)
                     = SelectSeq(queue, LAMBDA qId : qId # id)
               /\ \A other \in DOMAIN timers \ {id} :
                     other \in DOMAIN timers' /\ timers'[other] = timers[other]
         /\ (\E result \in Results, error \in Errors : PostResult(id, result, error))
            => /\ OthersUntouched(id)
               /\ queue' = queue
               /\ timers' = timers]_vars

\* C26 witness: the timer of the first job has rejected it while the second
\* job, accepted 15 s later, is still queued with its caller unsettled.
C26_Witness ==
    /\ issued = 2
    /\ RejectedWith(1, ErrTimeout)
    /\ polled = <<>>
    /\ queue = <<2>>
    /\ DOMAIN pendingJobs = {2}
    /\ Pending(2)
    /\ 2 \in DOMAIN timers

\* C27: once the connect request of the enabled, mounted worker page has
\* been acknowledged and its polling interval is running, the broker is
\* connected: no disconnect request that is still in flight from an earlier
\* disable or effect cleanup can leave the broker disconnected while the
\* worker polls.
C27_ConnectedWhilePolling ==
    (/\ pageMounted
     /\ isEnabled
     /\ net.connect = 0
     /\ net.connectAck = 0
     /\ pollTimerRef = "live")
    => isConnected

\* no request of the worker page is in flight or awaited
NothingInFlight ==
    /\ net.connect = 0 /\ net.connectAck = 0
    /\ net.disconnect = 0 /\ net.poll = 0
    /\ InProcess = {}

\* C28: when external access is off (or the page is unmounted) and every
\* request of the page has been answered, no polling interval is running
\* and the broker is disconnected, also when access was switched off while
\* startWorker was awaiting its connect request.
C28_DisabledMeansStopped ==
    ((~isEnabled \/ ~pageMounted) /\ NothingInFlight)
    => (~Polling /\ ~isConnected)

\* C29: for every job the worker page has received from a poll, processJob
\* leaves inference only by sending a completion report for that id: the
\* result report when inference returned, the error report with the thrown
\* message when it threw.  When the broker has applied the result report and
\* the page, because the request failed on its side, sends the error report
\* as well, that report is answered JOB_NOT_FOUND and the outcome the caller
\* holds, the index and the queue stay as they are.
C29_ReportsEveryJob ==
    [][\A id \in 1..issued :
         /\ (id \in DOMAIN work /\ work[id] = "inference" /\ work'[id] # "inference")
            => \/ InferenceReturns(id) /\ work'[id] = "result"
               \/ /\ \E msg \in WorkerMessages : InferenceThrows(id, msg)
                  /\ work'[id] = "error"
                  /\ thrown'[id] \in WorkerMessages
         /\ (id \in DOMAIN work /\ work[id] = "result" /\ work'[id] = "resultAck")
            => \E result \in Results : PostResult(id, result, Undefined)
         /\ DeliverError(id)
            => /\ thrown[id] # Undefined
               /\ id \in applied
                  => /\ thrown[id] = ErrFetch
                     /\ PostResultReturn(id) = "JOB_NOT_FOUND"
                     /\ promise[id].state = "fulfilled"
                     /\ UNCHANGED <<promise, pendingJobs, queue>>]_vars

\* C29 witness: the result report of a job was applied, its answer was lost,
\* the error report sent after it has been handled, and the caller still
\* holds the result, written once.
C29_Witness ==
    \E id \in applied :
        /\ work[id] = "done"
        /\ id \in DOMAIN thrown
        /\ thrown[id] = ErrFetch
        /\ promise[id] = [state |-> "fulfilled", value |-> "hi", calls |-> 1]

\* C30: at any time the worker page has at most one job that was popped for
\* it and whose processJob has not finished: no poll of the interval pops a
\* second job while the first is in process.
C30_OneJobAtATime ==
    Cardinality(InProcess) <= 1

====
